---- MODULE Spec2Model ----
(***************************************************************************)
(* State machine of MapComponent (src/src/components/map/MapComponent.tsx) *)
(* together with the FeatureList / FeatureProperties / MapToolbar          *)
(* components that drive it.                                               *)
(*                                                                         *)
(* React state is modelled by one variable per useState cell.  The click   *)
(* listeners registered on the mapbox map are modelled as a sequence of    *)
(* closures: each listener remembers the values of drawingMode, features,  *)
(* linePoints and polygonPoints of the render in which it was created,     *)
(* because the add* functions it calls read those values from that render. *)
(* Functional state updates (setX(prev => ...)) act on the live state.     *)
(* Every action is one user event: the handler, the re-render and the      *)
(* effects the re-render triggers.                                         *)
(***************************************************************************)
EXTENDS Integers, Sequences, FiniteSets, Bags, TLC

(* ---------------------------------------------------------------------- *)
(* Bounds                                                                  *)
(* ---------------------------------------------------------------------- *)

\* Drawing budget of a run: features created (uuids drawn) plus vertices
\* accumulated in linePoints and polygonPoints.
MaxDrawn == 3

\* Date.now() runs from 0 to MaxClock; at most MaxHandlers click listeners
\* are bound by the draft of FeatureList.tsx.
MaxClock == 2
MaxHandlers == 5

\* At most MaxInFlight geocoding requests await their answer at a time.
MaxInFlight == 2

\* Features plus vertices drawn in the runs that follow one shape over
\* several tool sessions.
MaxSessionDrawn == 5

\* Click positions (lng, lat) delivered by the map.
Points == { << 0, 0 >>, << 10, 20 >> }

\* The finite numbers of the model are the naturals; NonFinite is the one
\* number outside them and stands for NaN, Infinity and -Infinity.
NonFinite == 0 - 1

\* Click positions with a longitude or a latitude that is not finite.
NonFinitePoints == { << NonFinite, 0 >>, << 0, NonFinite >> }

\* Click positions of the line and shape-boundary scenarios.
ScenarioPoints == { << 0, 0 >>, << 1, 1 >>, << 5, 5 >> }

\* Texts a user types into the search box, as sequences of characters.
Queries == { << " " >>, << "a" >> }

\* The geocoding result the service knows for a query.
Place(query) ==
  [ place_name |-> query, center |-> << 10, 20 >> ]

\* JSON bodies the geocoding endpoint answers a query with: a feature
\* collection with a result, an empty one, or the body of an HTTP error
\* (401, 429), which has a message and no features.
Bodies(query) ==
  { [ type |-> "FeatureCollection", features |-> << Place(query) >> ],
    [ type |-> "FeatureCollection", features |-> << >> ],
    [ message |-> "Not Authorized - Invalid Token" ] }

\* Name and description a user types into the properties panel.
Typed == { [ name |-> << "Cafe" >>, description |-> << "Good coffee" >> ] }

(* ---------------------------------------------------------------------- *)
(* Values                                                                  *)
(* ---------------------------------------------------------------------- *)

\* The three toolbar buttons.
Tools == { "point", "line", "polygon" }

\* drawingMode is a tool or null.
NoTool == "null"

\* A template string `${prefix}${n}` is the pair of its parts; a plain
\* string s is the one-element tuple <<s>>.  Two strings are equal exactly
\* when their tuples are.
Template(prefix, n) == <<prefix, n>>

\* feature.id?.toString() / the id handed to getLayer by the delete paths:
\* the bare uuid, without prefix.
RawId(featureId) == Template("", featureId)

SourceId(featureId) == Template("source-", featureId)

LayerId(featureId) == Template("layer-", featureId)

Range(seq) == { seq[i] : i \in 1..Len(seq) }

\* A feature whose id is the number of its name (features.length + 1)
\* in place of the generated id.
CustomFeatureNumbered(featureId, geomType, coords, name, description) ==
  [ type |-> "Feature",
    id |-> name[2],
    geometry |-> [ type |-> geomType, coordinates |-> coords ],
    properties |-> [ name |-> name, description |-> description ] ]

CustomFeature(featureId, geomType, coords, name, description) ==
  [ type |-> "Feature",
    id |-> featureId,
    geometry |-> [ type |-> geomType, coordinates |-> coords ],
    properties |-> [ name |-> name, description |-> description ] ]

VARIABLES
  mounted,          \* map.current is set (the mount effect has run)
  drawingMode,      \* useState drawingMode
  features,         \* useState features
  selectedFeature,  \* useState selectedFeature: <<>> is null, <<f>> is f
  showProperties,   \* useState showProperties
  linePoints,       \* useState linePoints
  polygonPoints,    \* useState polygonPoints
  currentFeature,   \* useState currentFeature: <<>> is null
  selectedTool,     \* useState selectedTool
  canUndo,          \* useState canUndo
  canRedo,          \* useState canRedo
  clickHandlers,    \* listeners bound to the map's "click" event, in order
  drawingCleanup,   \* listener the drawingMode effect's cleanup will unbind
  sources,          \* ids of the map's data sources
  layers,           \* the map's layers
  nextId,           \* uuidv4: the next fresh id
  lastClick,        \* history: what the map click that just happened did
  session,          \* history: the clicks that followed a tool selection
  sinceClear,       \* history: the clicks that followed clearAll
  boundary,         \* history: progress along the shape-boundary scenario
  lastOp,           \* history: the list operation that just happened
  searchQuery,      \* useState searchQuery
  searchResults,    \* useState searchResults
  showResults,      \* useState showResults
  pending,          \* bag of the queries of the geocoding requests
                    \* sent and not yet answered
  camera,           \* the map's center and zoom
  homeFeatures,     \* useState features of Home (page.tsx)
  now               \* Date.now(), read by the draft components

reactState == << drawingMode, features, selectedFeature, showProperties,
                 linePoints, polygonPoints, currentFeature, selectedTool,
                 canUndo, canRedo >>
mapStateFixed == << mounted, clickHandlers, drawingCleanup >>
mapState == << mapStateFixed, sources, layers >>
history == << lastClick, session, sinceClear, boundary, lastOp >>
searchState == << searchQuery, searchResults, showResults, pending, camera >>
homeState == << homeFeatures >>
draftState == << now >>
vars == << reactState, mapState, nextId, history, searchState, homeState,
          draftState >>


(* ---------------------------------------------------------------------- *)
(* The map's click listeners                                               *)
(* ---------------------------------------------------------------------- *)

\* A listener function created in one render.  fn is the function's
\* identity (what map.off compares); the other fields are the values of
\* that render which the function and the add* functions it calls read.
Listener(fn, name, dm, feats, lp, pp) ==
  [ fn |-> fn, name |-> name, drawingMode |-> dm,
    featuresLength |-> Len(feats), linePoints |-> lp, polygonPoints |-> pp ]

\* Identity of a function object created now: any identity no bound
\* listener has.
FreshFn(handlers) ==
  CHOOSE n \in 0..Len(handlers) :
    /\ \A i \in 1..Len(handlers) : handlers[i].fn # n
    /\ \A m \in 0..(n - 1) : \E i \in 1..Len(handlers) : handlers[i].fn = m

\* map.on("click", listener)
On(handlers, listener) == Append(handlers, listener)

\* map.off("click", listener): removes the first listener that is this
\* function, nothing when it is not bound.
Off(handlers, fn) ==
  IF \E i \in 1..Len(handlers) : handlers[i].fn = fn
    THEN LET k == CHOOSE i \in 1..Len(handlers) :
                    /\ handlers[i].fn = fn
                    /\ \A j \in 1..(i - 1) : handlers[j].fn # fn
         IN [ i \in 1..(Len(handlers) - 1) |->
                IF i < k THEN handlers[i] ELSE handlers[i + 1] ]
    ELSE handlers

\* Mount effect (deps []): creates the map and binds handleMapClick, which
\* keeps the values of the first render for ever.
MountEffect(handlers, dm, feats, lp, pp) ==
  On(handlers, Listener(FreshFn(handlers), "handleMapClick", dm, feats, lp, pp))

\* DrawingModeEffect as it would be without its cleanup function: the
\* listener of the previous run stays bound.
DrawingModeEffectNoCleanup(handlers, cleanup, dm, feats, lp, pp) ==
  LET fn == FreshFn(handlers)
      listener == Listener(fn, "handleDrawingClick", dm, feats, lp, pp)
  IN [ handlers |-> On(Off(handlers, fn), listener),
       cleanup |-> << fn >> ]

\* Effect with deps [drawingMode]: the cleanup of the previous run unbinds
\* the listener that run bound; the body creates handleDrawingClick from the
\* current render, unbinds it (it is not bound yet) and binds it.
DrawingModeEffect(handlers, cleanup, dm, feats, lp, pp) ==
  LET cleaned == IF cleanup = <<>> THEN handlers ELSE Off(handlers, cleanup[1])
      fn == FreshFn(cleaned)
      listener == Listener(fn, "handleDrawingClick", dm, feats, lp, pp)
  IN [ handlers |-> On(Off(cleaned, fn), listener),
       cleanup |-> << fn >> ]

(* ---------------------------------------------------------------------- *)
(* Drawing actions.  h is the listener whose render the function belongs   *)
(* to, st the live state the functional updates act on, e the click's      *)
(* lngLat as <<lng, lat>>.                                                 *)
(* ---------------------------------------------------------------------- *)

Lng(e) == e[1]
Lat(e) == e[2]

\* map.addSource guarded by getSource, map.addLayer guarded by getLayer.
AddToMap(st, featureId, layerType) ==
  [ st EXCEPT
      !.sources = @ \cup { SourceId(featureId) },
      !.layers = IF \E l \in @ : l.id = LayerId(featureId)
                   THEN @
                   ELSE @ \cup { [ id |-> LayerId(featureId),
                                   type |-> layerType,
                                   source |-> SourceId(featureId) ] } ]

\* The functional update with the new feature put first.
PrependFeature(prev, feature) == << feature >> \o prev

\* setFeatures((prev) => [...prev, feature])
AppendFeature(prev, feature) == Append(prev, feature)

\* addPoint as it would be with latitude and longitude exchanged.
addPointSwapped(h, st, e) ==
  LET featureId == st.nextId
      feature == CustomFeature(featureId, "Point", << Lat(e), Lng(e) >>,
                               Template("Point ", h.featuresLength + 1),
                               << "New point feature" >>)
      st1 == [ st EXCEPT !.nextId = @ + 1,
                         !.calls = Append(@, "addPoint"),
                         !.features = AppendFeature(@, feature) ]
  IN AddToMap(st1, featureId, "circle")

addPoint(h, st, e) ==
  LET featureId == st.nextId
      feature == CustomFeature(featureId, "Point", << Lng(e), Lat(e) >>,
                               Template("Point ", h.featuresLength + 1),
                               << "New point feature" >>)
      st1 == [ st EXCEPT !.nextId = @ + 1,
                         !.calls = Append(@, "addPoint"),
                         !.features = AppendFeature(@, feature) ]
  IN AddToMap(st1, featureId, "circle")

\* addLinePoint without the `if (linePoints.length > 0)` of line 311: every
\* Line click creates a feature.
addLinePointUnguarded(h, st, e) ==
  LET coordinates == << Lng(e), Lat(e) >>
      st1 == [ st EXCEPT !.calls = Append(@, "addLinePoint"),
                         !.linePoints = Append(@, coordinates) ]
      featureId == st.nextId
      feature == CustomFeature(featureId, "LineString",
                   Append(h.linePoints, coordinates),
                   Template("Line ", h.featuresLength + 1),
                   << "New line feature" >>)
      st2 == [ st1 EXCEPT !.nextId = @ + 1,
                          !.features = AppendFeature(@, feature) ]
  IN AddToMap(st2, featureId, "line")

addLinePoint(h, st, e) ==
  LET coordinates == << Lng(e), Lat(e) >>
      st1 == [ st EXCEPT !.calls = Append(@, "addLinePoint"),
                         !.linePoints = Append(@, coordinates) ]
  IN IF Len(h.linePoints) > 0
       THEN LET featureId == st.nextId
                feature == CustomFeature(featureId, "LineString",
                             Append(h.linePoints, coordinates),
                             Template("Line ", h.featuresLength + 1),
                             << "New line feature" >>)
                st2 == [ st1 EXCEPT !.nextId = @ + 1,
                                    !.features = AppendFeature(@, feature) ]
            IN AddToMap(st2, featureId, "line")
       ELSE st1

addPolygonPoint(h, st, e) ==
  LET coordinates == << Lng(e), Lat(e) >>
      st1 == [ st EXCEPT !.calls = Append(@, "addPolygonPoint"),
                         !.polygonPoints = Append(@, coordinates) ]
  IN IF Len(h.polygonPoints) > 0
       THEN LET featureId == st.nextId
                feature == CustomFeature(featureId, "Polygon",
                             << Append(h.polygonPoints, coordinates) >>,
                             Template("Polygon ", h.featuresLength + 1),
                             << "New polygon feature" >>)
                st2 == [ st1 EXCEPT !.nextId = @ + 1,
                                    !.features = AppendFeature(@, feature) ]
            IN AddToMap(st2, featureId, "fill")
       ELSE st1

\* Listener of the mount effect: returns when its drawingMode is null,
\* else dispatches on it.
handleMapClick(h, st, e) ==
  IF h.drawingMode = NoTool THEN st
  ELSE IF h.drawingMode = "point" THEN addPoint(h, st, e)
  ELSE IF h.drawingMode = "line" THEN addLinePoint(h, st, e)
  ELSE addPolygonPoint(h, st, e)

\* handleDrawingClick without the `if (!drawingMode) return` of line 142:
\* the switch falls to a default that draws a point.
handleDrawingClickUnguarded(h, st, e) ==
  IF h.drawingMode = "line" THEN addLinePoint(h, st, e)
  ELSE IF h.drawingMode = "polygon" THEN addPolygonPoint(h, st, e)
  ELSE addPoint(h, st, e)

\* Listener of the drawingMode effect: the same body.
handleDrawingClick(h, st, e) ==
  IF h.drawingMode = NoTool THEN st
  ELSE IF h.drawingMode = "point" THEN addPoint(h, st, e)
  ELSE IF h.drawingMode = "line" THEN addLinePoint(h, st, e)
  ELSE addPolygonPoint(h, st, e)

\* The map fires "click": every bound listener runs, in binding order.
RECURSIVE Fire(_, _, _)
Fire(handlers, st, e) ==
  IF handlers = <<>> THEN st
  ELSE LET h == Head(handlers)
           st1 == IF h.name = "handleMapClick" THEN handleMapClick(h, st, e)
                  ELSE handleDrawingClick(h, st, e)
       IN Fire(Tail(handlers), st1, e)


(* ---------------------------------------------------------------------- *)
(* History bookkeeping (observes the run, never read by the program)       *)
(* ---------------------------------------------------------------------- *)

\* The scenario "select Line, click (0,0), click (1,1), select Point,
\* click (5,5)" as a sequence of events, from the freshly mounted map.
BoundaryScenario ==
  << << "tool", "line" >>, << "click", 0, 0 >>, << "click", 1, 1 >>,
     << "tool", "point" >>, << "click", 5, 5 >> >>

OffScenario == 0 - 1

\* boundary counts the events of BoundaryScenario that have happened, in
\* order and with nothing else in between, since the map was mounted.
BoundaryAfter(ev) ==
  IF boundary \in 0..(Len(BoundaryScenario) - 1)
       /\ Len(ev) = Len(BoundaryScenario[boundary + 1])
       /\ ev = BoundaryScenario[boundary + 1]
    THEN boundary + 1
    ELSE OffScenario

\* lastClick.fired: the last event was a map click; then mode is the
\* drawingMode it met, calls the drawing functions it ran, in order, and
\* created the number of features it added.
NoClick ==
  [ fired |-> FALSE, mode |-> NoTool, calls |-> << >>, created |-> 0 ]

\* session.active: a tool was selected and only map clicks followed; then
\* tool is that tool, clicks the clicked positions in order and startId the
\* first id not yet drawn when the tool was selected.
NoSession ==
  [ active |-> FALSE, tool |-> NoTool, clicks |-> << >>, startId |-> 0 ]

\* sinceClear.active: clearAll ran and only tool selections and map clicks
\* followed; then clicks are the positions clicked since with a tool active.
NoClear == [ active |-> FALSE, clicks |-> << >> ]

\* lastOp.op: the handler the last event ran, "none" unless it was a
\* delete, a save, an undo or a redo; found: a feature with the handler's id was in the
\* list when it ran; selected: that id was the selected feature's; outcome:
\* what the handler returned to its caller.
NoOp ==
  [ op |-> "none", found |-> FALSE, selected |-> FALSE,
    outcome |-> "undefined" ]

\* Did(op, id, outcome): handler op ran with id and returned outcome.
Did(op, id, outcome) ==
  [ op |-> op,
    found |-> \E i \in 1..Len(features) : features[i].id = id,
    selected |-> selectedFeature # << >> /\ selectedFeature[1].id = id,
    outcome |-> outcome ]

\* An operation that is neither a click, a tool selection nor clearAll.
OtherOperation(ev) ==
  /\ lastClick' = NoClick
  /\ session' = NoSession
  /\ sinceClear' = NoClear
  /\ boundary' = BoundaryAfter(ev)

(* ---------------------------------------------------------------------- *)
(* Initial state: the first render, before its effects                     *)
(* ---------------------------------------------------------------------- *)

Init ==
  /\ mounted = FALSE
  /\ drawingMode = NoTool
  /\ features = << >>
  /\ selectedFeature = << >>
  /\ showProperties = FALSE
  /\ linePoints = << >>
  /\ polygonPoints = << >>
  /\ currentFeature = << >>
  /\ selectedTool = << "" >>
  /\ canUndo = FALSE
  /\ canRedo = FALSE
  /\ clickHandlers = << >>
  /\ drawingCleanup = << >>
  /\ sources = { }
  /\ layers = { }
  /\ nextId = 1
  /\ lastClick = NoClick
  /\ session = NoSession
  /\ sinceClear = NoClear
  /\ boundary = 0
  /\ lastOp = NoOp
  /\ searchQuery = << >>
  /\ searchResults = << >>
  /\ showResults = FALSE
  /\ pending = EmptyBag
  /\ camera = [ center |-> << 0, 0 >>, zoom |-> 2 ]
  /\ homeFeatures = << >>
  /\ now = 0

(* ---------------------------------------------------------------------- *)
(* Actions                                                                 *)
(* ---------------------------------------------------------------------- *)

\* The effects as they would run were the second effect's dependency list
\* empty: never again after the first render.
RunEffectsOnce(dm, feats, lp, pp) ==
  UNCHANGED << clickHandlers, drawingCleanup >>

\* The effects of a render whose drawingMode is dm and whose other state is
\* feats, lp, pp: the [drawingMode] effect runs again only when drawingMode
\* differs from the previous render's.
RunEffects(dm, feats, lp, pp) ==
  IF dm # drawingMode
    THEN LET r == DrawingModeEffect(clickHandlers, drawingCleanup,
                                    dm, feats, lp, pp)
         IN /\ clickHandlers' = r.handlers
            /\ drawingCleanup' = r.cleanup
    ELSE UNCHANGED << clickHandlers, drawingCleanup >>

\* The effects of the first render, in declaration order: the mount effect,
\* then the drawingMode effect (map.current is set by then).
Mount ==
  /\ ~mounted
  /\ mounted' = TRUE
  /\ LET bound == MountEffect(clickHandlers, drawingMode, features,
                              linePoints, polygonPoints)
         r == DrawingModeEffect(bound, drawingCleanup, drawingMode, features,
                                linePoints, polygonPoints)
     IN /\ clickHandlers' = r.handlers
        /\ drawingCleanup' = r.cleanup
  /\ UNCHANGED << reactState, sources, layers, nextId, history >>
  /\ UNCHANGED << searchState, homeState, draftState >>

\* handleToolSelect as it would be with a setSelectedTool(tool): the
\* toolbar would highlight the active tool.
ToolSelectHighlights(tool) ==
  /\ mounted
  /\ drawingMode' = tool
  /\ currentFeature' = << >>
  /\ selectedTool' = << tool >>
  /\ RunEffects(tool, features, linePoints, polygonPoints)
  /\ lastClick' = NoClick
  /\ lastOp' = NoOp
  /\ session' = [ active |-> TRUE, tool |-> tool, clicks |-> << >>,
                  startId |-> nextId ]
  /\ boundary' = BoundaryAfter(<< "tool", tool >>)
  /\ UNCHANGED << features, selectedFeature, showProperties, linePoints,
                  polygonPoints, canUndo, canRedo, mounted,
                  sources, layers, nextId, sinceClear >>
  /\ UNCHANGED << searchState, homeState, draftState >>

\* A toolbar button: handleToolSelect(tool).
ToolSelect(tool) ==
  /\ mounted
  /\ drawingMode' = tool
  /\ currentFeature' = << >>
  /\ RunEffects(tool, features, linePoints, polygonPoints)
  /\ lastClick' = NoClick
  /\ lastOp' = NoOp
  /\ session' = [ active |-> TRUE, tool |-> tool, clicks |-> << >>,
                  startId |-> nextId ]
  /\ boundary' = BoundaryAfter(<< "tool", tool >>)
  /\ UNCHANGED << features, selectedFeature, showProperties, linePoints,
                  polygonPoints, selectedTool, canUndo, canRedo, mounted,
                  sources, layers, nextId, sinceClear >>
  /\ UNCHANGED << searchState, homeState, draftState >>

\* One physical click on the map at e, while what has been drawn stays
\* within budget features and vertices.
ClickWithin(e, budget) ==
  /\ mounted
  /\ LET st0 == [ features |-> features, linePoints |-> linePoints,
                  polygonPoints |-> polygonPoints, sources |-> sources,
                  layers |-> layers, nextId |-> nextId, calls |-> << >> ]
         st == Fire(clickHandlers, st0, e)
     IN /\ (st.nextId - 1) + Len(st.linePoints) + Len(st.polygonPoints)
             <= budget
        /\ features' = st.features
        /\ linePoints' = st.linePoints
        /\ polygonPoints' = st.polygonPoints
        /\ sources' = st.sources
        /\ layers' = st.layers
        /\ nextId' = st.nextId
        /\ lastOp' = NoOp
        /\ lastClick' = [ fired |-> TRUE, mode |-> drawingMode,
                          calls |-> st.calls,
                          created |-> Len(st.features) - Len(features) ]
  /\ session' = IF session.active
                  THEN [ session EXCEPT !.clicks = Append(@, e) ]
                  ELSE session
  /\ sinceClear' = IF sinceClear.active /\ drawingMode # NoTool
                     THEN [ sinceClear EXCEPT !.clicks = Append(@, e) ]
                     ELSE sinceClear
  /\ boundary' = BoundaryAfter(<< "click", Lng(e), Lat(e) >>)
  /\ UNCHANGED << drawingMode, selectedFeature, showProperties,
                  currentFeature, selectedTool, canUndo, canRedo, mapStateFixed >>
  /\ UNCHANGED << searchState, homeState, draftState >>


Click(e) == ClickWithin(e, MaxDrawn)

\* if (map.getLayer(id)) { map.removeLayer(id); map.removeSource(id); }
\* as written in handleFeatureDelete, removeFeature and clearAll: id is the
\* feature's bare id.
RemoveFromMap(m, id) ==
  IF \E l \in m.layers : l.id = id
    THEN [ layers |-> { l \in m.layers : l.id # id },
           sources |-> m.sources \ { id } ]
    ELSE m

\* handleFeatureSelect as it would be if selecting also abandoned the shape
\* being drawn.
FeatureSelectResetsDrawing(i) ==
  /\ mounted
  /\ i \in 1..Len(features)
  /\ selectedFeature' = << features[i] >>
  /\ showProperties' = TRUE
  /\ linePoints' = << >>
  /\ polygonPoints' = << >>
  /\ lastOp' = NoOp
  /\ OtherOperation(<< "select" >>)
  /\ UNCHANGED << drawingMode, features, currentFeature, selectedTool,
                  canUndo, canRedo, mapState, nextId >>
  /\ UNCHANGED << searchState, homeState, draftState >>

\* FeatureList row button: handleFeatureSelect(feature).
FeatureSelect(i) ==
  /\ mounted
  /\ i \in 1..Len(features)
  /\ selectedFeature' = << features[i] >>
  /\ showProperties' = TRUE
  /\ lastOp' = NoOp
  /\ OtherOperation(<< "select" >>)
  /\ UNCHANGED << drawingMode, features, linePoints, polygonPoints,
                  currentFeature, selectedTool, canUndo, canRedo,
                  mapState, nextId >>
  /\ UNCHANGED << searchState, homeState, draftState >>

\* handleFeatureDelete without lines 255-258: the selection is left alone.
handleFeatureDeleteKeepsSelection(id) ==
  /\ mounted
  /\ LET m == RemoveFromMap([ layers |-> layers, sources |-> sources ],
                            RawId(id))
     IN /\ layers' = m.layers
        /\ sources' = m.sources
  /\ features' = SelectSeq(features, LAMBDA f : RawId(f.id) # RawId(id))
  /\ UNCHANGED << selectedFeature, showProperties >>
  /\ lastOp' = Did("delete", id, "undefined")
  /\ OtherOperation(<< "delete" >>)
  /\ UNCHANGED << drawingMode, linePoints, polygonPoints, currentFeature,
                  selectedTool, canUndo, canRedo, mapStateFixed, nextId >>
  /\ UNCHANGED << searchState, homeState, draftState >>

\* FeatureList trash button: handleFeatureDelete(feature.id).
handleFeatureDelete(id) ==
  /\ mounted
  /\ LET m == RemoveFromMap([ layers |-> layers, sources |-> sources ],
                            RawId(id))
     IN /\ layers' = m.layers
        /\ sources' = m.sources
  /\ features' = SelectSeq(features, LAMBDA f : RawId(f.id) # RawId(id))
  /\ IF selectedFeature # << >> /\ RawId(selectedFeature[1].id) = RawId(id)
       THEN /\ selectedFeature' = << >>
            /\ showProperties' = FALSE
       ELSE UNCHANGED << selectedFeature, showProperties >>
  /\ lastOp' = Did("delete", id, "undefined")
  /\ OtherOperation(<< "delete" >>)
  /\ UNCHANGED << drawingMode, linePoints, polygonPoints, currentFeature,
                  selectedTool, canUndo, canRedo, mapStateFixed, nextId >>
  /\ UNCHANGED << searchState, homeState, draftState >>

FeatureDelete(i) ==
  /\ i \in 1..Len(features)
  /\ handleFeatureDelete(features[i].id)

\* handleFeatureUpdate without the f.id === updatedFeature.id test of line
\* 447: every feature takes the new properties.
handleFeatureUpdateEvery(feats, updatedFeature) ==
  [ i \in 1..Len(feats) |->
      [ feats[i] EXCEPT !.properties = updatedFeature.properties ] ]

\* handleFeatureUpdate(updatedFeature).  The map has no source named
\* "features" (sources are named source-<id>), so getSource("features")
\* is undefined and the setData branch is skipped.
handleFeatureUpdate(feats, updatedFeature) ==
  [ i \in 1..Len(feats) |->
      IF feats[i].id = updatedFeature.id
        THEN [ feats[i] EXCEPT !.properties = updatedFeature.properties ]
        ELSE feats[i] ]

\* Save as it would be if the panel were closed and the selection cleared
\* only when the list still holds the saved feature's id.
SaveClosesWhenFound(name, description) ==
  /\ mounted
  /\ showProperties
  /\ selectedFeature # << >>
  /\ LET feature == selectedFeature[1]
         updatedFeature ==
           [ feature EXCEPT !.properties =
               [ name |-> name, description |-> description ] ]
     IN features' = handleFeatureUpdate(features, updatedFeature)
  /\ IF \E i \in 1..Len(features) : features[i].id = selectedFeature[1].id
       THEN /\ selectedFeature' = << >>
            /\ showProperties' = FALSE
       ELSE UNCHANGED << selectedFeature, showProperties >>
  /\ lastOp' = Did("save", selectedFeature[1].id, "undefined")
  /\ OtherOperation(<< "save" >>)
  /\ UNCHANGED << drawingMode, linePoints, polygonPoints, currentFeature,
                  selectedTool, canUndo, canRedo, mapState, nextId >>
  /\ UNCHANGED << searchState, homeState, draftState >>

\* Save button of the properties panel: FeatureProperties.handleSave, that
\* is onUpdate(updatedFeature) followed by onClose().  The panel is rendered
\* only while showProperties && selectedFeature.
Save(name, description) ==
  /\ mounted
  /\ showProperties
  /\ selectedFeature # << >>
  /\ LET feature == selectedFeature[1]
         updatedFeature ==
           [ feature EXCEPT !.properties =
               [ name |-> name, description |-> description ] ]
     IN features' = handleFeatureUpdate(features, updatedFeature)
  /\ selectedFeature' = << >>
  /\ showProperties' = FALSE
  /\ lastOp' = Did("save", selectedFeature[1].id, "undefined")
  /\ OtherOperation(<< "save" >>)
  /\ UNCHANGED << drawingMode, linePoints, polygonPoints, currentFeature,
                  selectedTool, canUndo, canRedo, mapState, nextId >>
  /\ UNCHANGED << searchState, homeState, draftState >>

\* onClose as it would be without its setSelectedFeature(null): the panel
\* is hidden and the feature stays selected.
CloseKeepsSelection ==
  /\ mounted
  /\ showProperties
  /\ selectedFeature # << >>
  /\ showProperties' = FALSE
  /\ lastOp' = NoOp
  /\ OtherOperation(<< "close" >>)
  /\ UNCHANGED << drawingMode, features, selectedFeature, linePoints,
                  polygonPoints, currentFeature, selectedTool, canUndo,
                  canRedo, mapState, nextId >>
  /\ UNCHANGED << searchState, homeState, draftState >>

\* Cancel button of the properties panel: onClose().
Close ==
  /\ mounted
  /\ showProperties
  /\ selectedFeature # << >>
  /\ showProperties' = FALSE
  /\ selectedFeature' = << >>
  /\ lastOp' = NoOp
  /\ OtherOperation(<< "close" >>)
  /\ UNCHANGED << drawingMode, features, linePoints, polygonPoints,
                  currentFeature, selectedTool, canUndo, canRedo,
                  mapState, nextId >>
  /\ UNCHANGED << searchState, homeState, draftState >>

RECURSIVE RemoveAllFromMap(_, _)
RemoveAllFromMap(m, feats) ==
  IF feats = << >> THEN m
  ELSE RemoveAllFromMap(RemoveFromMap(m, RawId(Head(feats).id)), Tail(feats))

\* clearAll as it would be if it also forgot the vertices clicked so far.
ClearAllResetsVertices ==
  /\ mounted
  /\ LET m == RemoveAllFromMap([ layers |-> layers, sources |-> sources ],
                               features)
     IN /\ layers' = m.layers
        /\ sources' = m.sources
  /\ features' = << >>
  /\ drawingMode' = NoTool
  /\ RunEffects(NoTool, << >>, << >>, << >>)
  /\ linePoints' = << >>
  /\ polygonPoints' = << >>
  /\ lastClick' = NoClick
  /\ lastOp' = NoOp
  /\ session' = NoSession
  /\ sinceClear' = [ active |-> TRUE, clicks |-> << >> ]
  /\ boundary' = BoundaryAfter(<< "clear" >>)
  /\ UNCHANGED << selectedFeature, showProperties,
                  currentFeature, selectedTool, canUndo, canRedo, mounted,
                  nextId >>
  /\ UNCHANGED << searchState, homeState, draftState >>

\* clearAll()
ClearAll ==
  /\ mounted
  /\ LET m == RemoveAllFromMap([ layers |-> layers, sources |-> sources ],
                               features)
     IN /\ layers' = m.layers
        /\ sources' = m.sources
  /\ features' = << >>
  /\ drawingMode' = NoTool
  /\ RunEffects(NoTool, << >>, linePoints, polygonPoints)
  /\ lastClick' = NoClick
  /\ lastOp' = NoOp
  /\ session' = NoSession
  /\ sinceClear' = [ active |-> TRUE, clicks |-> << >> ]
  /\ boundary' = BoundaryAfter(<< "clear" >>)
  /\ UNCHANGED << selectedFeature, showProperties, linePoints, polygonPoints,
                  currentFeature, selectedTool, canUndo, canRedo, mounted,
                  nextId >>
  /\ UNCHANGED << searchState, homeState, draftState >>

\* removeFeature(index), index being a position of the features array.
RemoveFeature(index) ==
  /\ mounted
  /\ index \in 1..Len(features)
  /\ LET m == RemoveFromMap([ layers |-> layers, sources |-> sources ],
                            RawId(features[index].id))
     IN /\ layers' = m.layers
        /\ sources' = m.sources
  /\ features' = [ i \in 1..(Len(features) - 1) |->
                     IF i < index THEN features[i] ELSE features[i + 1] ]
  /\ lastOp' = NoOp
  /\ OtherOperation(<< "remove" >>)
  /\ UNCHANGED << drawingMode, selectedFeature, showProperties, linePoints,
                  polygonPoints, currentFeature, selectedTool, canUndo,
                  canRedo, mapStateFixed, nextId >>
  /\ UNCHANGED << searchState, homeState, draftState >>

\* handleUndo as it would be if it removed the newest feature and enabled
\* redo.
handleUndoRemovesLast ==
  /\ mounted
  /\ features' = SubSeq(features, 1, Len(features) - 1)
  /\ canRedo' = TRUE
  /\ lastOp' = [ NoOp EXCEPT !.op = "undo" ]
  /\ OtherOperation(<< "undo" >>)
  /\ UNCHANGED << drawingMode, selectedFeature, showProperties, linePoints,
                  polygonPoints, currentFeature, selectedTool, canUndo,
                  mapState, nextId >>
  /\ UNCHANGED << searchState, homeState, draftState >>

\* handleUndo(), the onUndo of the toolbar: its body is empty.  lastOp
\* records that it ran.
handleUndo ==
  /\ mounted
  /\ lastOp' = [ NoOp EXCEPT !.op = "undo" ]
  /\ OtherOperation(<< "undo" >>)
  /\ UNCHANGED << reactState, mapState, nextId >>
  /\ UNCHANGED << searchState, homeState, draftState >>

\* handleRedo(), the onRedo of the toolbar: its body is empty.
handleRedo ==
  /\ mounted
  /\ lastOp' = [ NoOp EXCEPT !.op = "redo" ]
  /\ OtherOperation(<< "redo" >>)
  /\ UNCHANGED << reactState, mapState, nextId >>
  /\ UNCHANGED << searchState, homeState, draftState >>

\* The toolbar as it would be with a button that deselects the tool:
\* handleToolSelect accepts null.
SelectAToolOrNone == \E tool \in Tools \cup { NoTool } : ToolSelect(tool)

SelectATool == \E tool \in Tools : ToolSelect(tool)
SelectThePointTool == ToolSelect("point")
ClickTheMap == \E e \in Points : Click(e)
ClickAScenarioPoint == \E e \in ScenarioPoints : Click(e)
ClickTheMapOften == \E e \in Points : ClickWithin(e, MaxSessionDrawn)
ClickANonFinitePoint == \E e \in NonFinitePoints : Click(e)
SelectAFeature == \E i \in 1..Len(features) : FeatureSelect(i)
DeleteAFeature == \E i \in 1..Len(features) : FeatureDelete(i)
\* The panel's fields start as the selected feature's name and description
\* and hold what the user typed since.
SaveProperties ==
  \E form \in Typed \cup { f.properties : f \in Range(selectedFeature) } :
    Save(form.name, form.description)
RemoveAFeature == \E index \in 1..Len(features) : RemoveFeature(index)
\* handleFeatureDelete called with an id no feature has had: nextId stands
\* for a uuid that has not been generated yet.
DeleteAMissingFeature == handleFeatureDelete(nextId)

(* ---------------------------------------------------------------------- *)
(* Search                                                                  *)
(* ---------------------------------------------------------------------- *)

\* The characters String.prototype.trim removes: WhiteSpace (tab, VT, FF,
\* space, no-break space, U+FEFF and the space separators) and
\* LineTerminator (LF, CR, U+2028, U+2029).  A character a string of this
\* module cannot hold is written as its escape, \uXXXX.
WhiteSpace ==
  { "\t", "", "\f", " ", " ", "\\ufeff", "\\u1680", "\\u2000",
    "\\u2001", "\\u2002", "\\u2003", "\\u2004", "\\u2005", "\\u2006",
    "\\u2007", "\\u2008", "\\u2009", "\\u200a", "\\u202f", "\\u205f",
    "\\u3000" }

LineTerminator == { "\n", "\r", "\\u2028", "\\u2029" }

\* String.prototype.trim on a sequence of characters.
RECURSIVE TrimStart(_)
TrimStart(q) ==
  IF q # << >> /\ Head(q) \in WhiteSpace \cup LineTerminator
    THEN TrimStart(Tail(q))
    ELSE q

RECURSIVE TrimEnd(_)
TrimEnd(q) ==
  IF q # << >> /\ q[Len(q)] \in WhiteSpace \cup LineTerminator
    THEN TrimEnd(SubSeq(q, 1, Len(q) - 1))
    ELSE q

Trim(q) == TrimEnd(TrimStart(q))

\* data.features of a parsed body: << >> is undefined, << v >> is v.
DataFeatures(data) ==
  IF "features" \in DOMAIN data THEN << data.features >> ELSE << >>

\* handleSearch up to its await: the input's onChange with e.target.value
\* = query.
handleSearch(query) ==
  /\ mounted
  /\ searchQuery' = query
  /\ IF Trim(query) = << >>
       THEN /\ searchResults' = << >>
            /\ showResults' = FALSE
            /\ UNCHANGED pending
       ELSE /\ BagCardinality(pending) < MaxInFlight
            /\ pending' = pending (+) SetToBag({ query })
            /\ UNCHANGED << searchResults, showResults >>
  /\ lastClick' = NoClick
  /\ lastOp' = NoOp
  /\ OtherOperation(<< "search" >>)
  /\ UNCHANGED << reactState, mapState, nextId, camera, homeState, draftState >>

\* An error thrown while rendering, with no error boundary around the
\* component: React unmounts the tree, the mount effect's cleanup removes
\* the map, and every state cell is discarded.  What is left is the state
\* before the first render (a reload mounts the component anew).
RenderError ==
  /\ mounted' = FALSE
  /\ drawingMode' = NoTool
  /\ features' = << >>
  /\ selectedFeature' = << >>
  /\ showProperties' = FALSE
  /\ linePoints' = << >>
  /\ polygonPoints' = << >>
  /\ currentFeature' = << >>
  /\ selectedTool' = << "" >>
  /\ canUndo' = FALSE
  /\ canRedo' = FALSE
  /\ clickHandlers' = << >>
  /\ drawingCleanup' = << >>
  /\ sources' = { }
  /\ layers' = { }
  /\ nextId' = 1
  /\ lastClick' = NoClick
  /\ session' = NoSession
  /\ sinceClear' = NoClear
  /\ boundary' = 0
  /\ lastOp' = NoOp
  /\ searchQuery' = << >>
  /\ searchResults' = << >>
  /\ showResults' = FALSE
  /\ pending' = EmptyBag
  /\ camera' = [ center |-> << 0, 0 >>, zoom |-> 2 ]
  /\ homeFeatures' = << >>
  /\ now' = 0

\* handleSearch after its await, the fetch of query having failed (fetch
\* or response.json() rejects): the catch branch.
SearchFails(query) ==
  /\ mounted
  /\ BagIn(query, pending)
  /\ pending' = pending (-) SetToBag({ query })
  /\ searchResults' = << >>
  /\ lastClick' = NoClick
  /\ lastOp' = NoOp
  /\ OtherOperation(<< "search" >>)
  /\ UNCHANGED << reactState, mapState, nextId, searchQuery, showResults,
                  camera, homeState, draftState >>

\* handleSearch after its await, the fetch of query having been answered
\* with the body data: setSearchResults(data.features), then the render
\* that evaluates searchResults.length.
SearchAnswers(query, data) ==
  /\ mounted
  /\ BagIn(query, pending)
  /\ IF DataFeatures(data) = << >>
       THEN RenderError
       ELSE /\ pending' = pending (-) SetToBag({ query })
            /\ searchResults' = DataFeatures(data)[1]
            /\ showResults' = TRUE
            /\ lastClick' = NoClick
            /\ lastOp' = NoOp
            /\ OtherOperation(<< "search" >>)
            /\ UNCHANGED << reactState, mapState, nextId, searchQuery,
                            camera, homeState, draftState >>

\* A row of the result list: handleLocationSelect(result).
handleLocationSelect(result) ==
  /\ mounted
  /\ camera' = [ center |-> << result.center[1], result.center[2] >>,
                 zoom |-> 8 ]
  /\ searchQuery' = << >>
  /\ searchResults' = << >>
  /\ showResults' = FALSE
  /\ lastClick' = NoClick
  /\ lastOp' = NoOp
  /\ OtherOperation(<< "search" >>)
  /\ UNCHANGED << reactState, mapState, nextId, pending, homeState, draftState >>

TypeAQuery == \E query \in Queries : handleSearch(query)
ASearchFails == \E query \in BagToSet(pending) : SearchFails(query)
ASearchIsAnswered ==
  \E query \in BagToSet(pending) : \E data \in Bodies(query) :
    SearchAnswers(query, data)
SelectALocation ==
  \E result \in Range(searchResults) : handleLocationSelect(result)

\* Drawing and selecting interleaved with the search box.
NextSearch ==
  \/ Mount
  \/ SelectATool
  \/ ClickTheMap
  \/ SelectAFeature
  \/ TypeAQuery
  \/ ASearchFails
  \/ ASearchIsAnswered
  \/ SelectALocation

SpecSearch == Init /\ [][NextSearch]_vars

\* Everything a user can do with the rendered component.
Next ==
  \/ Mount
  \/ SelectATool
  \/ ClickTheMap
  \/ SelectAFeature
  \/ DeleteAFeature
  \/ SaveProperties
  \/ Close

Spec == Init /\ [][Next]_vars

\* The same with clearAll and removeFeature, which the component defines
\* but binds to no control.
NextAll ==
  \/ Mount
  \/ SelectATool
  \/ ClickTheMap
  \/ SelectAFeature
  \/ DeleteAFeature
  \/ SaveProperties
  \/ Close
  \/ ClearAll
  \/ RemoveAFeature

SpecAll == Init /\ [][NextAll]_vars

\* The handlers called with ids that may be missing from the list: a save
\* from a panel whose feature removeFeature has dropped, and a delete with
\* an unknown id.
NextHandlers ==
  \/ Mount
  \/ SelectATool
  \/ ClickTheMap
  \/ SelectAFeature
  \/ SaveProperties
  \/ RemoveAFeature
  \/ DeleteAMissingFeature

SpecHandlers == Init /\ [][NextHandlers]_vars

\* The list and the properties panel over point features, with
\* removeFeature.
NextPanel ==
  \/ Mount
  \/ SelectThePointTool
  \/ ClickTheMap
  \/ SelectAFeature
  \/ SaveProperties
  \/ Close
  \/ RemoveAFeature

SpecPanel == Init /\ [][NextPanel]_vars

\* Tool selections and map clicks, some clicks carrying coordinates that
\* are not finite.
NextNonFinite ==
  \/ Mount
  \/ SelectATool
  \/ ClickTheMap
  \/ ClickANonFinitePoint

SpecNonFinite == Init /\ [][NextNonFinite]_vars

\* Drawing, selecting and clearAll, which puts the component back in the
\* state where no tool is active.
NextIdle ==
  \/ Mount
  \/ SelectATool
  \/ ClickTheMap
  \/ SelectAFeature
  \/ ClearAll

SpecIdle == Init /\ [][NextIdle]_vars

(* ---------------------------------------------------------------------- *)
(* The draft components: FeatureList.tsx lines 85-617 and part_002          *)
(* ---------------------------------------------------------------------- *)

\* A feature of the drafts' list.
MapFeature(type, coords, id) ==
  [ type |-> type, coordinates |-> coords, id |-> id ]

\* map.addLayer({ id, type, source: { type: "geojson", data } }): a layer
\* and its inline source, both named id.  A layer whose id exists already
\* is not added (the map fires an error event).
DraftAddLayer(st, id, layerType, geomType, coords) ==
  IF \E l \in st.layers : l.id = id
    THEN st
    ELSE [ st EXCEPT
             !.layers = @ \cup
               { [ id |-> id, type |-> layerType,
                   data |-> [ type |-> geomType, coordinates |-> coords ] ] },
             !.sources = @ \cup { id } ]

\* map.getSource(id).setData(...)
DraftSetData(st, id, geomType, coords) ==
  [ st EXCEPT
      !.layers = { IF l.id = id
                     THEN [ l EXCEPT !.data =
                              [ type |-> geomType, coordinates |-> coords ] ]
                     ELSE l : l \in @ } ]

\* addPoint of the draft in FeatureList.tsx: the id is point-<Date.now()>.
addPointDated(st, coordinates, clock) ==
  LET featureId == Template("point-", clock)
      st1 == DraftAddLayer(st, featureId, "circle", "Point", coordinates)
  IN [ st1 EXCEPT
         !.calls = Append(@, "addPoint"),
         !.features = Append(@, MapFeature("point", coordinates, featureId)) ]

\* addPoint of the draft in part_002: the id is a uuid.
addPointUuid(st, coordinates, clock) ==
  LET featureId == RawId(st.nextId)
      st1 == DraftAddLayer(st, featureId, "circle", "Point", coordinates)
  IN [ st1 EXCEPT
         !.nextId = @ + 1,
         !.calls = Append(@, "addPoint"),
         !.features = Append(@, MapFeature("point", coordinates, featureId)) ]

\* addLinePoint of both drafts: the functional update of features, with
\* the map calls it makes.
addLinePointDraft(st, coordinates, clock) ==
  LET prev == st.features
      featureId == Template("line-", clock)
      st0 == [ st EXCEPT !.calls = Append(@, "addLinePoint") ]
  IN IF prev # << >> /\ prev[Len(prev)].type = "line"
       THEN LET lastFeature == prev[Len(prev)]
                lineCoordinates == Append(lastFeature.coordinates, coordinates)
                st1 == IF \E l \in st0.layers : l.id = lastFeature.id
                         THEN DraftSetData(st0, lastFeature.id, "LineString",
                                           lineCoordinates)
                         ELSE DraftAddLayer(st0, featureId, "line",
                                            "LineString", lineCoordinates)
            IN [ st1 EXCEPT
                   !.features =
                     Append(SubSeq(prev, 1, Len(prev) - 1),
                            MapFeature("line", lineCoordinates, featureId)) ]
       ELSE LET st1 == DraftAddLayer(st0, featureId, "line", "LineString",
                                     << coordinates >>)
            IN [ st1 EXCEPT
                   !.features =
                     Append(prev, MapFeature("line", << coordinates >>,
                                             featureId)) ]

\* addPolygonPoint of both drafts.
addPolygonPointDraft(st, coordinates, clock) ==
  LET prev == st.features
      featureId == Template("polygon-", clock)
      st0 == [ st EXCEPT !.calls = Append(@, "addPolygonPoint") ]
  IN IF prev # << >> /\ prev[Len(prev)].type = "polygon"
       THEN LET lastFeature == prev[Len(prev)]
                polygonCoordinates ==
                  Append(lastFeature.coordinates, coordinates)
                st1 == IF \E l \in st0.layers : l.id = lastFeature.id
                         THEN DraftSetData(st0, lastFeature.id, "Polygon",
                                           << polygonCoordinates >>)
                         ELSE DraftAddLayer(st0, featureId, "fill", "Polygon",
                                            << polygonCoordinates >>)
            IN [ st1 EXCEPT
                   !.features =
                     Append(SubSeq(prev, 1, Len(prev) - 1),
                            MapFeature("polygon", polygonCoordinates,
                                       featureId)) ]
       ELSE LET st1 == DraftAddLayer(st0, featureId, "fill", "Polygon",
                                     << << coordinates >> >>)
            IN [ st1 EXCEPT
                   !.features =
                     Append(prev, MapFeature("polygon", << coordinates >>,
                                             featureId)) ]

\* The click listeners of the drafts, all with the same body: return when
\* the captured drawingMode is null, else dispatch on it.  file tells the
\* draft the listener belongs to.
draftHandleClick(h, st, e, clock, file) ==
  LET coordinates == << Lng(e), Lat(e) >>
  IN IF h.drawingMode = NoTool THEN st
     ELSE IF h.drawingMode = "point"
       THEN IF file = "FeatureList.tsx"
              THEN addPointDated(st, coordinates, clock)
              ELSE addPointUuid(st, coordinates, clock)
     ELSE IF h.drawingMode = "line"
       THEN addLinePointDraft(st, coordinates, clock)
     ELSE addPolygonPointDraft(st, coordinates, clock)

\* A listener draws when the drawingMode it captured is a tool.
Draws(h) == h.drawingMode # NoTool

\* Listener i reads Date.now() at the render that follows the click, not
\* while it runs: addLinePoint and addPolygonPoint read it, and call the
\* map, inside the updater they hand to setFeatures, which React runs at
\* the render; addPoint reads it and calls the map at once.  eager: React
\* runs the updater at once when it is the first update of the click.
AtRender(handlers, i, eager) ==
  /\ handlers[i].drawingMode \in { "line", "polygon" }
  /\ ~ (eager /\ \A j \in 1..(i - 1) : ~Draws(handlers[j]))

\* The position of listener i's Date.now() among the readings of a click:
\* those made while the listeners run come first, in the listeners'
\* order, then those made at the render, in the order of the updaters.
ReadOrder(handlers, i, eager) ==
  IF AtRender(handlers, i, eager)
    THEN Cardinality({ j \in 1..Len(handlers) :
                         Draws(handlers[j]) /\ ~AtRender(handlers, j, eager) })
         + Cardinality({ j \in 1..i : AtRender(handlers, j, eager) })
    ELSE Cardinality({ j \in 1..i :
                         Draws(handlers[j]) /\ ~AtRender(handlers, j, eager) })

\* The values k successive readings of Date.now() can give from clock on.
Readings(clock, k) ==
  { r \in [ 1..k -> clock..MaxClock ] :
      \A i \in 1..(k - 1) : r[i] <= r[i + 1] }

\* The map calls the bound listeners in the order they were bound, and the
\* updaters run in that order too: the state after the first n listeners
\* and their updaters, readings being what Date.now() returned.
RECURSIVE FireDraft(_, _, _, _, _, _, _)
FireDraft(handlers, n, st, e, readings, eager, file) ==
  IF n = 0 THEN st
  ELSE LET before == FireDraft(handlers, n - 1, st, e, readings, eager, file)
           clock == IF Draws(handlers[n])
                      THEN readings[ReadOrder(handlers, n, eager)]
                      ELSE 0
       IN draftHandleClick(handlers[n], before, e, clock, file)

\* Number of vertices held by a list of draft features.
RECURSIVE DraftVertices(_)
DraftVertices(feats) ==
  IF feats = << >> THEN 0
  ELSE (IF Head(feats).type = "point" THEN 1
        ELSE Len(Head(feats).coordinates))
       + DraftVertices(Tail(feats))

\* One physical click at e on the map of a draft, with the render that
\* follows it; time may pass between the readings of Date.now().
DraftClick(e, file) ==
  /\ mounted
  /\ \E eager \in BOOLEAN :
     LET k == Cardinality({ i \in 1..Len(clickHandlers) :
                              Draws(clickHandlers[i]) })
     IN \E readings \in Readings(now, k) :
       LET st0 == [ features |-> features, sources |-> sources,
                    layers |-> layers, nextId |-> nextId, calls |-> << >> ]
           st == FireDraft(clickHandlers, Len(clickHandlers), st0, e,
                           readings, eager, file)
       IN
        /\ now' = IF k = 0 THEN now ELSE readings[k]
        /\ DraftVertices(st.features) <= MaxDrawn
        /\ features' = st.features
        /\ sources' = st.sources
        /\ layers' = st.layers
        /\ nextId' = st.nextId
        /\ lastClick' = [ fired |-> TRUE, mode |-> drawingMode,
                          calls |-> st.calls,
                          created |-> Len(st.features) - Len(features) ]
  /\ lastOp' = NoOp
  /\ session' = NoSession
  /\ sinceClear' = NoClear
  /\ boundary' = BoundaryAfter(<< "draft" >>)
  /\ UNCHANGED << drawingMode, selectedFeature, showProperties, linePoints,
                  polygonPoints, currentFeature, selectedTool, canUndo,
                  canRedo, mapStateFixed, searchState, homeState >>

\* Time passes: Date.now() grows.
Tick ==
  /\ mounted
  /\ now < MaxClock
  /\ now' = now + 1
  /\ UNCHANGED << reactState, mapState, nextId, history, searchState,
                  homeState >>

\* map.off("click") called with no listener: no bound listener is that
\* argument, none is removed.
OffNoListener(handlers) == handlers

\* A listener of the drafts: their add* functions read nothing of the
\* render but drawingMode.
DraftListener(fn, name, dm) == Listener(fn, name, dm, << >>, << >>, << >>)

\* The two [drawingMode] effects of the draft in FeatureList.tsx, after the
\* cleanup of the second one's previous run: the first (lines 199-224)
\* binds an anonymous listener and has no cleanup, the second (485-517)
\* binds handleClick and returns the cleanup that unbinds it.
DraftListEffects(handlers, cleanup, dm) ==
  LET cleaned == IF cleanup = << >> THEN handlers
                 ELSE Off(handlers, cleanup[1])
      first == On(OffNoListener(cleaned),
                  DraftListener(FreshFn(cleaned), "anonymous", dm))
      fn == FreshFn(first)
      second == On(OffNoListener(first), DraftListener(fn, "handleClick", dm))
  IN [ handlers |-> second, cleanup |-> << fn >> ]

\* First render of the draft in FeatureList.tsx: the mount effect binds an
\* anonymous listener, then both [drawingMode] effects run.
DraftListMount ==
  /\ ~mounted
  /\ mounted' = TRUE
  /\ LET bound == On(clickHandlers,
                     DraftListener(FreshFn(clickHandlers), "anonymous",
                                   drawingMode))
         r == DraftListEffects(bound, drawingCleanup, drawingMode)
     IN /\ clickHandlers' = r.handlers
        /\ drawingCleanup' = r.cleanup
  /\ UNCHANGED << reactState, sources, layers, nextId, history, searchState,
                  homeState, draftState >>

\* handleToolSelect(tool) of the draft in FeatureList.tsx.
DraftListToolSelect(tool) ==
  /\ mounted
  /\ drawingMode' = tool
  /\ currentFeature' = << >>
  /\ IF tool # drawingMode
       THEN LET r == DraftListEffects(clickHandlers, drawingCleanup, tool)
            IN /\ Len(r.handlers) <= MaxHandlers
               /\ clickHandlers' = r.handlers
               /\ drawingCleanup' = r.cleanup
       ELSE UNCHANGED << clickHandlers, drawingCleanup >>
  /\ lastOp' = NoOp
  /\ OtherOperation(<< "draft" >>)
  /\ UNCHANGED << features, selectedFeature, showProperties, linePoints,
                  polygonPoints, selectedTool, canUndo, canRedo, mounted,
                  sources, layers, nextId, searchState, homeState,
                  draftState >>

\* if (feature.id && map.getLayer(feature.id)) { map.removeLayer(feature.id);
\* map.removeSource(feature.id) } of the draft in FeatureList.tsx, whose
\* layers and sources are named by the feature's id.
DraftRemoveFromMap(m, feature) ==
  IF \E l \in m.layers : l.id = feature.id
    THEN [ layers |-> { l \in m.layers : l.id # feature.id },
           sources |-> m.sources \ { feature.id } ]
    ELSE m

\* features.forEach of the draft's clearAll.
RECURSIVE DraftRemoveAllFromMap(_, _)
DraftRemoveAllFromMap(m, feats) ==
  IF feats = << >> THEN m
  ELSE DraftRemoveAllFromMap(DraftRemoveFromMap(m, Head(feats)), Tail(feats))

\* clearAll() of the draft in FeatureList.tsx, bound to the button
\* "Clear All".
DraftListClearAll ==
  /\ mounted
  /\ LET m == DraftRemoveAllFromMap([ layers |-> layers,
                                      sources |-> sources ], features)
     IN /\ layers' = m.layers
        /\ sources' = m.sources
  /\ features' = << >>
  /\ drawingMode' = NoTool
  /\ IF drawingMode # NoTool
       THEN LET r == DraftListEffects(clickHandlers, drawingCleanup, NoTool)
            IN /\ Len(r.handlers) <= MaxHandlers
               /\ clickHandlers' = r.handlers
               /\ drawingCleanup' = r.cleanup
       ELSE UNCHANGED << clickHandlers, drawingCleanup >>
  /\ lastOp' = NoOp
  /\ OtherOperation(<< "draft" >>)
  /\ UNCHANGED << selectedFeature, showProperties, linePoints, polygonPoints,
                  currentFeature, selectedTool, canUndo, canRedo, mounted,
                  nextId, searchState, homeState, draftState >>

\* removeFeature(index) of the draft in FeatureList.tsx, bound to the
\* button "Remove" of row index; positions count from 1 here.
DraftListRemoveFeature(index) ==
  /\ mounted
  /\ index \in 1..Len(features)
  /\ LET m == DraftRemoveFromMap([ layers |-> layers, sources |-> sources ],
                                 features[index])
     IN /\ layers' = m.layers
        /\ sources' = m.sources
  /\ features' = [ i \in 1..(Len(features) - 1) |->
                     IF i < index THEN features[i] ELSE features[i + 1] ]
  /\ lastOp' = NoOp
  /\ OtherOperation(<< "draft" >>)
  /\ UNCHANGED << drawingMode, selectedFeature, showProperties, linePoints,
                  polygonPoints, currentFeature, selectedTool, canUndo,
                  canRedo, mapStateFixed, nextId, searchState, homeState,
                  draftState >>

\* The draft's buttons Add Point, Add Line, Add Polygon and None.
SelectADraftListTool ==
  \E tool \in Tools \cup { NoTool } : DraftListToolSelect(tool)
ClickTheListDraft == \E e \in Points : DraftClick(e, "FeatureList.tsx")
RemoveADraftListFeature ==
  \E index \in 1..Len(features) : DraftListRemoveFeature(index)

\* The draft component appended to FeatureList.tsx: its map and its
\* buttons.
NextDraftList ==
  \/ DraftListMount
  \/ SelectADraftListTool
  \/ ClickTheListDraft
  \/ DraftListClearAll
  \/ RemoveADraftListFeature
  \/ Tick

SpecDraftList == Init /\ [][NextDraftList]_vars

\* The draft's search box with its drawing.  Its handleSearch and
\* handleLocationSelect (lines 226-263) and the render of its result list
\* (line 536) are those of MapComponent.tsx, word for word.
NextDraftListSearch ==
  \/ DraftListMount
  \/ SelectADraftListTool
  \/ ClickTheListDraft
  \/ TypeAQuery
  \/ ASearchFails
  \/ ASearchIsAnswered
  \/ SelectALocation

SpecDraftListSearch == Init /\ [][NextDraftListSearch]_vars

ClickThePart002Draft == \E e \in Points : DraftClick(e, "part_002")

\* The draft of part_002: its two effects are those of MapComponent.tsx
\* (Mount, ToolSelect); its add* functions are the drafts'.
NextPart002 ==
  \/ Mount
  \/ SelectATool
  \/ ClickThePart002Draft
  \/ Tick

SpecPart002 == Init /\ [][NextPart002]_vars

\* Tool selections and map clicks, long enough for a shape to be continued
\* after the tool was left and selected again.
NextSessions ==
  \/ Mount
  \/ SelectATool
  \/ ClickTheMapOften

SpecSessions == Init /\ [][NextSessions]_vars

\* Every operation that could touch the vertices clicked so far: the
\* rendered controls and clearAll.
NextVertices ==
  \/ Mount
  \/ SelectATool
  \/ ClickTheMap
  \/ SelectAFeature
  \/ DeleteAFeature
  \/ SaveProperties
  \/ ClearAll

SpecVertices == Init /\ [][NextVertices]_vars

\* Drawing and selecting, with the two history handlers of the toolbar.
NextUndo ==
  \/ Mount
  \/ SelectATool
  \/ ClickTheMap
  \/ SelectAFeature
  \/ handleUndo
  \/ handleRedo

SpecUndo == Init /\ [][NextUndo]_vars

\* The toolbar's five buttons, with drawing, selecting and clearAll.
NextToolbar ==
  \/ Mount
  \/ SelectATool
  \/ handleUndo
  \/ handleRedo
  \/ ClickTheMap
  \/ SelectAFeature
  \/ ClearAll

SpecToolbar == Init /\ [][NextToolbar]_vars

\* Tool selections and map clicks only, at the scenarios' positions.
NextDraw ==
  \/ Mount
  \/ SelectATool
  \/ ClickAScenarioPoint

SpecDraw == Init /\ [][NextDraw]_vars


(* ---------------------------------------------------------------------- *)
(* Properties                                                              *)
(* ---------------------------------------------------------------------- *)

DrawingActionOf(mode) ==
  IF mode = "point" THEN "addPoint"
  ELSE IF mode = "line" THEN "addLinePoint"
  ELSE "addPolygonPoint"

\* The positions a feature's geometry holds.
Vertices(f) ==
  IF f.geometry.type = "Point" THEN { f.geometry.coordinates }
  ELSE IF f.geometry.type = "LineString" THEN Range(f.geometry.coordinates)
  ELSE Range(f.geometry.coordinates[1])

\* The features created since the running tool session began.
Gained == SelectSeq(features, LAMBDA f : f.id >= session.startId)

\* C1: one physical click runs the drawing function of the current tool
\* exactly once, runs none when no tool is active, and adds at most one
\* feature, whatever tool selections came before.
C1_ClickRunsCurrentToolOnce ==
  lastClick.fired =>
    /\ lastClick.calls = IF lastClick.mode = NoTool
                           THEN << >>
                           ELSE << DrawingActionOf(lastClick.mode) >>
    /\ lastClick.created <= 1
    /\ lastClick.mode = NoTool => lastClick.created = 0

\* A Point click, run once, after the Line and the Polygon tool were both
\* selected and used.
C1_Witness ==
  /\ lastClick.fired
  /\ lastClick.mode = "point"
  /\ lastClick.calls = << "addPoint" >>
  /\ lastClick.created = 1
  /\ linePoints # << >>
  /\ polygonPoints # << >>

\* C2: while the map is mounted exactly one click handler is bound to it.
C2_ExactlyOneClickHandler ==
  mounted => Len(clickHandlers) = 1

\* C3: after selecting the Line tool and clicking n >= 1 points with nothing
\* in between, the list has gained exactly one feature, a LineString whose
\* coordinates are the clicked points in click order.
C3_LineSessionMakesOneLine ==
  (session.active /\ session.tool = "line" /\ Len(session.clicks) >= 1) =>
    /\ Len(Gained) = 1
    /\ Gained[1].geometry =
         [ type |-> "LineString", coordinates |-> session.clicks ]

\* C4: after selecting the Polygon tool and clicking n >= 1 points with
\* nothing in between, the list has gained exactly one feature, a Polygon
\* whose ring is the clicked points in click order.
C4_PolygonSessionMakesOnePolygon ==
  (session.active /\ session.tool = "polygon" /\ Len(session.clicks) >= 1) =>
    /\ Len(Gained) = 1
    /\ Gained[1].geometry =
         [ type |-> "Polygon", coordinates |-> << session.clicks >> ]

\* C5: with the Point tool active a click at (lng, lat) appends exactly one
\* feature, a Point at exactly (lng, lat) with the default name and
\* description and an id no stored feature has; the stored features,
\* linePoints and polygonPoints are unchanged.
C5_PointClickAddsOnePoint ==
  [][ \A e \in Points :
        (drawingMode = "point" /\ Click(e)) =>
          /\ Len(features') = Len(features) + 1
          /\ SubSeq(features', 1, Len(features)) = features
          /\ LET f == features'[Len(features')]
             IN /\ f.type = "Feature"
                /\ f.geometry = [ type |-> "Point", coordinates |-> e ]
                /\ \E n \in 1..(MaxDrawn + 1) :
                     f.properties.name = Template("Point ", n)
                /\ f.properties.description = << "New point feature" >>
                /\ \A i \in 1..Len(features) : features[i].id # f.id
          /\ linePoints' = linePoints
          /\ polygonPoints' = polygonPoints ]_vars

\* A Point click that met a stored feature and line vertices in progress.
C5_Witness ==
  /\ lastClick.fired
  /\ lastClick.mode = "point"
  /\ lastClick.created = 1
  /\ Len(features) >= 2
  /\ features[Len(features)].geometry.type = "Point"
  /\ linePoints # << >>

\* C6: select Line, click (0,0), click (1,1), select Point, click (5,5)
\* leaves exactly two features, the LineString (0,0),(1,1) and then the
\* Point (5,5).
C6_ShapeBoundaryScenario ==
  boundary = Len(BoundaryScenario) =>
    /\ Len(features) = 2
    /\ features[1].geometry =
         [ type |-> "LineString",
           coordinates |-> << << 0, 0 >>, << 1, 1 >> >> ]
    /\ features[2].geometry =
         [ type |-> "Point", coordinates |-> << 5, 5 >> ]

\* C7: a line or polygon created in a tool session holds only positions
\* clicked in that session, never one clicked before the tool was selected.
C7_SessionOwnsItsVertices ==
  session.active =>
    \A i \in 1..Len(features) :
      (features[i].id >= session.startId
         /\ features[i].geometry.type # "Point")
        => Vertices(features[i]) \subseteq Range(session.clicks)

\* C8: after clearAll every line or polygon in the list holds only
\* positions clicked after clearAll.
C8_ClearAllStartsFresh ==
  sinceClear.active =>
    \A i \in 1..Len(features) :
      features[i].geometry.type # "Point"
        => Vertices(features[i]) \subseteq Range(sinceClear.clicks)

\* C9: every feature in the list has exactly one layer and its data source
\* on the map, and every layer on the map belongs to a feature in the list.
C9_FeatureLayerLockstep ==
  /\ \A i \in 1..Len(features) :
       /\ Cardinality({ l \in layers : l.id = LayerId(features[i].id) }) = 1
       /\ SourceId(features[i].id) \in sources
  /\ \A l \in layers :
       \E i \in 1..Len(features) : l.id = LayerId(features[i].id)

\* C10: handleFeatureDelete(id) of a stored feature removes the feature
\* from the list and removes from the map the layer and the data source
\* added when the feature was created.
C10_DeleteRemovesLayerAndSource ==
  [][ \A i \in 1..Len(features) :
        FeatureDelete(i) =>
          /\ \A j \in 1..Len(features') : features'[j].id # features[i].id
          /\ \A l \in layers' : l.id # LayerId(features[i].id)
          /\ SourceId(features[i].id) \notin sources' ]_vars

\* C11: if feature F is selected and handleFeatureDelete(F.id) runs, then
\* afterwards no feature is selected and the properties panel is closed.
C11_DeleteOfSelectedClearsSelection ==
  (lastOp.op = "delete" /\ lastOp.selected)
    => (selectedFeature = << >> /\ ~showProperties)

\* The selected feature, present in the list, has just been deleted.
C11_Witness ==
  /\ lastOp.op = "delete"
  /\ lastOp.selected
  /\ lastOp.found
  /\ selectedFeature = << >>
  /\ ~showProperties

\* C12: the selection never dangles: if a feature is selected then a feature
\* with that id is in the features list, whichever operation (handleFeatureDelete,
\* removeFeature, clearAll) made features disappear.
C12_SelectionNeverDangles ==
  selectedFeature # << >>
    => \E i \in 1..Len(features) : features[i].id = selectedFeature[1].id

\* C13: updating properties or deleting with an id that no stored feature
\* has gives the caller a NotFound outcome and leaves the features list
\* unchanged.
C13_MissingIdGivesNotFound ==
  [][ (lastOp'.op \in { "save", "delete" } /\ ~lastOp'.found)
        => (lastOp'.outcome = "NotFound" /\ features' = features) ]_vars

\* C14: a click whose longitude or latitude is not finite is rejected under
\* every tool: no feature is created, no feature changes, and no vertex is
\* appended to linePoints or polygonPoints.
C14_NonFiniteClickRejected ==
  [][ \A e \in NonFinitePoints :
        (drawingMode \in Tools /\ Click(e))
          => UNCHANGED << features, linePoints, polygonPoints >> ]_vars

\* C15: a property edit (handleSave -> handleFeatureUpdate) changes only the
\* name and description of the feature with the matching id: its id and
\* geometry are unchanged, and every other feature is unchanged.
C15_SaveChangesOnlyProperties ==
  [][ \A form \in Typed \cup { f.properties : f \in Range(selectedFeature) } :
        Save(form.name, form.description)
          => /\ Len(features') = Len(features)
             /\ \A i \in 1..Len(features) :
                  IF features[i].id = selectedFeature[1].id
                    THEN /\ features'[i].type = features[i].type
                         /\ features'[i].id = features[i].id
                         /\ features'[i].geometry = features[i].geometry
                         /\ features'[i].properties =
                              [ name |-> form.name,
                                description |-> form.description ]
                    ELSE features'[i] = features[i] ]_vars

\* A save has just renamed one feature of several, and another one still
\* has the name it was created with.
C15_Witness ==
  /\ lastOp.op = "save"
  /\ lastOp.found
  /\ \E i, j \in 1..Len(features) :
       /\ i # j
       /\ features[i].properties.name = << "Cafe" >>
       /\ features[j].properties.name # << "Cafe" >>

\* C16: in every reachable state the ids of the features in the list are
\* pairwise distinct, and no feature has an empty coordinate sequence.
C16_DistinctIdsNonEmptyCoordinates ==
  /\ \A i, j \in 1..Len(features) :
       i # j => features[i].id # features[j].id
  /\ \A i \in 1..Len(features) :
       /\ features[i].geometry.coordinates # << >>
       /\ features[i].geometry.type = "Polygon"
            => features[i].geometry.coordinates[1] # << >>

\* Two features created from the same captured features.length: they carry
\* the same name and different ids.
C16_Witness ==
  \E i, j \in 1..Len(features) :
    /\ i # j
    /\ features[i].properties.name = features[j].properties.name
    /\ features[i].id # features[j].id

Ids(feats) == [ i \in 1..Len(feats) |-> feats[i].id ]

\* C17: the features list is always in insertion order: a newly created
\* feature is appended at the end, and neither a property update nor a
\* deletion changes the relative order of the features that remain.
C17_InsertionOrderKept ==
  [][ \/ UNCHANGED features
      \/ LET old == Ids(features)
             new == Ids(features')
         IN /\ SelectSeq(new, LAMBDA id : id \in Range(old))
                 = SelectSeq(old, LAMBDA id : id \in Range(new))
            /\ \A i, j \in 1..Len(new) :
                 (new[i] \notin Range(old) /\ new[j] \in Range(old))
                   => j < i ]_vars

\* A feature has just been deleted from a list in which another feature
\* had been renamed, and two features remain.
C17_Witness ==
  /\ lastOp.op = "delete"
  /\ lastOp.found
  /\ Len(features) >= 2
  /\ \E i \in 1..Len(features) :
       features[i].properties.name = << "Cafe" >>

\* C18: saving the properties panel always ends with the panel closed and
\* no feature selected, whether or not the saved feature's id is still in
\* the features list.
C18_SaveClosesPanel ==
  lastOp.op = "save" => (selectedFeature = << >> /\ ~showProperties)

\* A save has just run for a feature that removeFeature had dropped from
\* the list while the panel was open.
C18_Witness ==
  /\ lastOp.op = "save"
  /\ ~lastOp.found
  /\ features # << >>
  /\ selectedFeature = << >>
  /\ ~showProperties

\* C19: selecting a feature sets it as the selected feature and opens the
\* properties panel, and mutates nothing else: the features list, the
\* drawing mode, the in-progress vertices and the map are unchanged.
C19_SelectOnlySelects ==
  [][ \A i \in 1..Len(features) :
        FeatureSelect(i)
          => /\ selectedFeature' = << features[i] >>
             /\ showProperties'
             /\ UNCHANGED << features, drawingMode, linePoints,
                             polygonPoints, currentFeature, selectedTool,
                             mapState >> ]_vars

\* A feature of the list is selected with the panel open while a tool is
\* active and a line is in progress.
C19_Witness ==
  /\ selectedFeature # << >>
  /\ showProperties
  /\ \E i \in 1..Len(features) : features[i] = selectedFeature[1]
  /\ drawingMode = "line"
  /\ linePoints # << >>

\* C20: while no tool is active (drawingMode is null) a map click is a
\* no-op: the features list, linePoints, polygonPoints, the selection and
\* the map's layers are unchanged.
C20_ClickWithoutToolIsNoOp ==
  [][ \A e \in Points :
        (drawingMode = NoTool /\ Click(e))
          => UNCHANGED << features, linePoints, polygonPoints,
                          selectedFeature, showProperties, layers,
                          sources >> ]_vars

\* The map has just been clicked with no tool active, after clearAll left
\* vertices in linePoints, a layer on the map and a feature selected.
C20_Witness ==
  /\ lastClick.fired
  /\ lastClick.mode = NoTool
  /\ lastClick.calls = << >>
  /\ drawingMode = NoTool
  /\ linePoints # << >>
  /\ layers # { }
  /\ selectedFeature # << >>

\* C21: the geocoding search never affects drawing or feature state:
\* search keystrokes, delayed, reordered or failed responses and result
\* selection leave the features list, drawingMode, linePoints,
\* polygonPoints and the selection as they are.
C21_SearchLeavesDrawingAlone ==
  [][ (TypeAQuery \/ ASearchFails \/ ASearchIsAnswered \/ SelectALocation)
        => UNCHANGED << features, drawingMode, linePoints, polygonPoints,
                        selectedFeature, showProperties >> ]_vars

\* C22: the sidebar shows all added features: in every reachable state the
\* list given to the page's MapSidebar (Home.features) contains exactly the
\* features of MapComponent's features list.
C22_SidebarShowsAllFeatures ==
  homeFeatures = features

DraftPoints(feats) == SelectSeq(feats, LAMBDA f : f.type = "point")

\* C23: in the draft MapComponent of FeatureList.tsx, switching tools never
\* causes duplicate feature creation: after any number of tool changes, one
\* click with the Point tool active adds exactly one point.
C23_DraftClickAddsOnePoint ==
  [][ \A e \in Points :
        (drawingMode = "point" /\ DraftClick(e, "FeatureList.tsx"))
          => Len(DraftPoints(features')) = Len(DraftPoints(features)) + 1
     ]_vars

\* C24: in the draft of part_002, extending an in-progress line is an
\* update in place under the same id: for every click after the first of a
\* line the features list keeps its length and the line keeps its id, even
\* when Date.now() differs between the clicks.
C24_DraftLineKeepsId ==
  [][ \A e \in Points :
        ( /\ drawingMode = "line"
          /\ features # << >>
          /\ features[Len(features)].type = "line"
          /\ DraftClick(e, "part_002") )
          => /\ Len(features') = Len(features)
             /\ features'[Len(features')].id = features[Len(features)].id
     ]_vars

\* C25: in the draft of part_002, a line built by n >= 1 consecutive Line
\* clicks has exactly one map layer at every step, and that layer's data
\* holds all n vertices clicked so far.
C25_DraftLineHasOneLayer ==
  (Len(features) = 1 /\ features[1].type = "line")
    => /\ Cardinality(layers) = 1
       /\ \A l \in layers :
            /\ l.type = "line"
            /\ l.data.coordinates = features[1].coordinates

\* C26: every LineString feature created by a click under the Line tool has
\* as coordinates the complete sequence of Line-tool clicks made so far
\* (the current linePoints followed by the clicked point); the same holds
\* for Polygon features and polygonPoints.
C26_ShapeHoldsAllClicks ==
  [][ \A e \in Points :
        (ClickWithin(e, MaxSessionDrawn) /\ Len(features') > Len(features))
          => LET f == features'[Len(features')]
             IN /\ drawingMode = "line"
                  => f.geometry.coordinates = Append(linePoints, e)
                /\ drawingMode = "polygon"
                  => f.geometry.coordinates = << Append(polygonPoints, e) >>
     ]_vars

\* C27: at every click the drawing handler that acts dispatches on the
\* current drawingMode: the mode captured by the bound handleDrawingClick
\* equals drawingMode, for any sequence of tool selections, and no other
\* bound listener has captured a tool.
C27_BoundHandlerHasCurrentMode ==
  mounted =>
    /\ \E i \in 1..Len(clickHandlers) :
         /\ clickHandlers[i].name = "handleDrawingClick"
         /\ clickHandlers[i].drawingMode = drawingMode
    /\ \A i \in 1..Len(clickHandlers) :
         clickHandlers[i].drawingMode \in { NoTool, drawingMode }

\* A click has just been handled under the polygon tool, selected after
\* the line tool had been used.
C27_Witness ==
  /\ lastClick.fired
  /\ lastClick.mode = "polygon"
  /\ lastClick.calls = << "addPolygonPoint" >>
  /\ linePoints # << >>
  /\ \E i \in 1..Len(clickHandlers) :
       clickHandlers[i].drawingMode = "polygon"

\* C28: the default name of a new feature carries the number of features
\* in the list at the moment of the click, plus one (Point k+1 when the
\* list holds k features), so that consecutive clicks never give the same
\* default name.
C28_DefaultNameCountsFeatures ==
  [][ \A e \in Points :
        (Click(e) /\ Len(features') = Len(features) + 1)
          => LET name == features'[Len(features')].properties.name
             IN /\ name[2] = Len(features) + 1
                /\ \A i \in 1..Len(features) :
                     features[i].properties.name # name ]_vars

\* C29: linePoints and polygonPoints are append-only: a Line click appends
\* exactly one vertex to linePoints, a Polygon click exactly one to
\* polygonPoints, and no other operation (tool selection, point click,
\* select, delete, property save, clearAll) changes either sequence.
C29_VerticesAppendOnly ==
  [][ IF lastClick'.fired /\ drawingMode = "line"
        THEN /\ \E e \in Points :
                  linePoints' = Append(linePoints, << Lng(e), Lat(e) >>)
             /\ polygonPoints' = polygonPoints
      ELSE IF lastClick'.fired /\ drawingMode = "polygon"
        THEN /\ \E e \in Points :
                  polygonPoints' = Append(polygonPoints, << Lng(e), Lat(e) >>)
             /\ linePoints' = linePoints
      ELSE UNCHANGED << linePoints, polygonPoints >> ]_vars

\* clearAll has run, the vertices clicked before it are still there, and
\* a Line click has since appended one more.
C29_Witness ==
  /\ sinceClear.active
  /\ sinceClear.clicks # << >>
  /\ drawingMode = "line"
  /\ features = << >>
  /\ Len(linePoints) > Len(sinceClear.clicks)

\* C30: every LineString feature in the list has at least two vertices and
\* every Polygon feature a ring of at least two vertices; a Line or Polygon
\* click made while the handler sees no earlier vertex creates no feature.
C30_ShapesHaveTwoVertices ==
  /\ \A i \in 1..Len(features) :
       /\ features[i].geometry.type = "LineString"
            => Len(features[i].geometry.coordinates) >= 2
       /\ features[i].geometry.type = "Polygon"
            => Len(features[i].geometry.coordinates[1]) >= 2
  /\ \A i \in 1..Len(clickHandlers) :
       LET h == clickHandlers[i]
       IN ( /\ lastClick.fired
            /\ h.drawingMode = lastClick.mode
            /\ \/ h.drawingMode = "line" /\ h.linePoints = << >>
               \/ h.drawingMode = "polygon" /\ h.polygonPoints = << >> )
          => lastClick.created = 0

\* The list holds a LineString or a Polygon made of a captured vertex and
\* the clicked one.
C30_Witness ==
  \E i \in 1..Len(features) :
    \/ /\ features[i].geometry.type = "LineString"
       /\ Len(features[i].geometry.coordinates) = 2
    \/ /\ features[i].geometry.type = "Polygon"
       /\ Len(features[i].geometry.coordinates[1]) = 2

\* C31: the properties panel is open exactly when a feature is selected:
\* showProperties is true if and only if selectedFeature is non-null, in
\* every state reachable through select, delete, save, cancel, clicks and
\* tool changes.
C31_PanelOpenIffSelected ==
  showProperties <=> selectedFeature # << >>

\* Another feature than the selected one has just been deleted: the panel
\* is still open on the selected feature.
C31_Witness ==
  /\ lastOp.op = "delete"
  /\ lastOp.found
  /\ ~lastOp.selected
  /\ showProperties
  /\ selectedFeature # << >>

\* C32: search results always belong to the latest query: once every
\* in-flight request has completed, the displayed searchResults are those
\* returned for the most recently typed query, and they are empty whenever
\* that query is blank.  searchQuery holds the most recently typed query
\* whenever it is not the empty string that handleLocationSelect and the
\* first render store.
C32_ResultsBelongToLatestQuery ==
  (pending = EmptyBag /\ searchQuery # << >>) =>
    IF Trim(searchQuery) = << >>
      THEN searchResults = << >>
      ELSE searchResults \in { << >>, << Place(searchQuery) >> }

\* C33: the toolbar's selectedTool stays the empty string in every
\* reachable state: no tool selection or other operation changes it, so it
\* never equals the active drawingMode once a tool has been selected.
C33_SelectedToolStaysEmpty ==
  /\ selectedTool = << "" >>
  /\ drawingMode # NoTool => selectedTool # << drawingMode >>

\* A tool has been selected and used, and the toolbar still has no
\* selected tool.
C33_Witness ==
  /\ drawingMode \in Tools
  /\ features # << >>
  /\ selectedTool = << "" >>

\* C34: undo and redo are never available and never act: canUndo and
\* canRedo are false in every reachable state, and handleUndo and
\* handleRedo leave the features list, the drawing mode, the in-progress
\* vertices and the selection unchanged.
C34_UndoRedoInert ==
  /\ [](~canUndo /\ ~canRedo)
  /\ [][ (handleUndo \/ handleRedo) =>
           UNCHANGED << features, drawingMode, linePoints, polygonPoints,
                        selectedFeature, showProperties >> ]_vars

\* handleUndo has run while a feature was selected and a line was being
\* drawn.
C34_Witness ==
  /\ lastOp.op = "undo"
  /\ features # << >>
  /\ selectedFeature # << >>
  /\ linePoints # << >>

\* C35: a tool selection made from the toolbar only ever sets drawingMode
\* to point, line or polygon: once a tool has been selected, no toolbar
\* action (tool button, undo, redo) returns drawingMode to null, and
\* clearAll is the only operation that sets it back to null.
C35_OnlyClearAllDeselects ==
  [][ /\ SelectATool => drawingMode' \in Tools
      /\ (handleUndo \/ handleRedo) => UNCHANGED drawingMode
      /\ (drawingMode # NoTool /\ drawingMode' = NoTool) => ClearAll
    ]_vars

\* A tool was selected and used, and clearAll has put drawingMode back to
\* null.
C35_Witness ==
  /\ drawingMode = NoTool
  /\ sinceClear.active
  /\ sinceClear.clicks = << >>
  /\ session = NoSession
  /\ layers # { }

====
